---- MODULE Spec2Model ----
(***************************************************************************)
(* Model of homeassistant/components/alexa/flash_briefings.py:             *)
(* AlexaFlashBriefingView, the HTTP view that serves Alexa flash briefings.*)
(*                                                                         *)
(* get is a synchronous @callback: it runs to completion on the event loop *)
(* without yielding, so one request is one atomic action.  The wall clock  *)
(* keeps running between requests and while the handler executes, so the   *)
(* clock readings taken for the items of one request may differ.           *)
(***************************************************************************)
EXTENDS Integers, Sequences, FiniteSets, TLC

VARIABLES
    flash_briefings,  \* self.flash_briefings: the configuration dict
    hass_state,       \* the Home Assistant state the templates read
    now,              \* the wall clock (UTC), in ticks
    uuid_calls,       \* number of uuid.uuid4() calls made so far
    generated_uids,   \* history: generated uids returned in earlier responses
    served,           \* number of requests handled so far
    response          \* the request handled last and what it returned

vars == <<flash_briefings, hass_state, now, uuid_calls, generated_uids, served, response>>

----------------------------------------------------------------------------
(* Bounds of the model *)

MaxItems == 2        \* longest configured briefing
MaxRequests == 2     \* requests handled in one behaviour
MaxClock == 2        \* last clock tick
TicksPerSecond == 2  \* clock ticks per unit of the date format's resolution

----------------------------------------------------------------------------
(* Python values: a type tag and a payload.  The payload of a text value is *)
(* a TLA+ string, except for passwords, whose payload is the sequence of    *)
(* their code points so that str.encode can be computed.                    *)

None == [t |-> "NoneType", v |-> "None"]
Str(s) == [t |-> "str", v |-> s]
Integer(s) == [t |-> "int", v |-> s]
Template(s) == [t |-> "Template", v |-> s]
List(s) == [t |-> "list", v |-> s]

is_none(x) == x.t = "NoneType"
isinstance(x, ty) == x.t = ty

\* str(x) of a str or an int (the int payload is kept as its decimal digits)
str(x) == Str(x.v)

\* bool(x): Python truthiness of the values above
truthy(x) ==
    CASE x.t = "NoneType" -> FALSE
      [] x.t = "str" -> x.v # ""
      [] x.t = "int" -> x.v # "0"
      [] OTHER -> TRUE

EmptyDict == [k \in {} |-> None]
dict_get(d, k) == IF k \in DOMAIN d THEN d[k] ELSE None
dict_get_default(d, k, default) == IF k \in DOMAIN d THEN d[k] ELSE default
dict_set(d, k, val) == [x \in (DOMAIN d) \cup {k} |-> IF x = k THEN val ELSE d[x]]

----------------------------------------------------------------------------
(* Names imported from .const and homeassistant.const *)

API_PASSWORD == "api_password"
CONF_PASSWORD == "password"
CONF_TITLE == "title"
CONF_TEXT == "text"
CONF_UID == "uid"
CONF_AUDIO == "audio"
CONF_DISPLAY_URL == "display_url"
ATTR_TITLE_TEXT == "titleText"
ATTR_MAIN_TEXT == "mainText"
ATTR_UID == "uid"
ATTR_STREAM_URL == "streamUrl"
ATTR_REDIRECTION_URL == "redirectionUrl"
ATTR_UPDATE_DATE == "updateDate"

----------------------------------------------------------------------------
(* External collaborators *)

\* str.encode("utf-8") on a sequence of code points
utf8_char(c) ==
    IF c < 128 THEN <<c>>
    ELSE IF c < 2048 THEN <<192 + (c \div 64), 128 + (c % 64)>>
    ELSE <<224 + (c \div 4096), 128 + ((c \div 64) % 64), 128 + (c % 64)>>

RECURSIVE encode(_)
encode(s) == IF s = <<>> THEN <<>> ELSE utf8_char(Head(s)) \o encode(Tail(s))

\* a comparison that stops at the end of the shorter operand
compare_digest_prefix(a, b) ==
    \A i \in 1..Len(a) : i <= Len(b) => a[i] = b[i]

\* hmac.compare_digest(a, b) on two byte strings: its result
compare_digest(a, b) ==
    /\ Len(a) = Len(b)
    /\ \A i \in 1..Len(a) : a[i] = b[i]

\* uuid.uuid4(): the k-th draw of the generator; draws are taken to be fresh
uuid4(k) == Str("uuid4-" \o ToString(k))

\* dt_util.utcnow().strftime(DATE_FORMAT): DATE_FORMAT keeps whole seconds
strftime(t) == Str("1970-01-01T00:00:0" \o ToString(t \div TicksPerSecond) \o ".0Z")

\* template.Template.async_render(parse_result=False) in Home Assistant state h:
\* the rendered text, or TemplateError raised
async_render(tpl, h) ==
    CASE tpl.v = "{{ 'Hello' }}" -> [raised |-> FALSE, v |-> Str("Hello")]
      [] tpl.v = "{{ states('sensor.n') }}" -> [raised |-> FALSE, v |-> Str(h)]
      [] tpl.v = "{{ 1 / states('sensor.n') | int }}" ->
            IF h = "0" THEN [raised |-> TRUE, v |-> Str("")]
            ELSE [raised |-> FALSE, v |-> Str("0.5")]

----------------------------------------------------------------------------
(* AlexaFlashBriefingView *)

validate_password(fb, query) ==
    IF is_none(dict_get(query, API_PASSWORD)) THEN FALSE
    ELSE IF ~compare_digest(encode(query[API_PASSWORD].v),
                            encode(fb[CONF_PASSWORD].v)) THEN FALSE
    ELSE TRUE

\* a check of the value's truth instead of its type
is_valid_briefing_truthy(fb, briefing_id) ==
    IF ~isinstance(dict_get(fb, briefing_id), "list") THEN FALSE
    ELSE dict_get(fb, briefing_id).v # <<>>

is_valid_briefing(fb, briefing_id) ==
    IF ~isinstance(dict_get(fb, briefing_id), "list") THEN FALSE ELSE TRUE

\* The state of one process_item call: the output dict built so far, whether
\* TemplateError is propagating, and the uuid4 and async_render calls made.
\* A step of process_item is not executed once the exception propagates.
Started == [raised |-> FALSE, output |-> EmptyDict, uuids |-> 0, renders |-> 0]

rendered(s, output_key, r) ==
    IF r.raised THEN [s EXCEPT !.raised = TRUE, !.renders = @ + 1]
    ELSE [s EXCEPT !.output = dict_set(@, output_key, r.v), !.renders = @ + 1]

\* a test of the value's truth instead of a test against None
add_attribute_to_output_falsy(item, conf_key, s, output_key, h) ==
    IF s.raised THEN s
    ELSE IF truthy(dict_get(item, conf_key)) THEN
        IF isinstance(item[conf_key], "Template") THEN
            rendered(s, output_key, async_render(item[conf_key], h))
        ELSE [s EXCEPT !.output = dict_set(@, output_key, dict_get(item, conf_key))]
    ELSE s

add_attribute_to_output(item, conf_key, s, output_key, h) ==
    IF s.raised THEN s
    ELSE IF ~is_none(dict_get(item, conf_key)) THEN
        IF isinstance(item[conf_key], "Template") THEN
            rendered(s, output_key, async_render(item[conf_key], h))
        ELSE [s EXCEPT !.output = dict_set(@, output_key, dict_get(item, conf_key))]
    ELSE s

\* a test of the UID's truth instead of a test against None
get_uid_falsy(item, n) ==
    IF ~truthy(dict_get(item, CONF_UID))
    THEN [uid |-> uuid4(n + 1), calls |-> 1]
    ELSE [uid |-> str(item[CONF_UID]), calls |-> 0]

\* n is the number of uuid4 calls made before this one
get_uid(item, n) ==
    IF is_none(dict_get(item, CONF_UID))
    THEN [uid |-> uuid4(n + 1), calls |-> 1]
    ELSE [uid |-> str(item[CONF_UID]), calls |-> 0]

\* lines 111-112
set_uid(s, u) ==
    IF s.raised THEN s
    ELSE [s EXCEPT !.output = dict_set(@, ATTR_UID, u.uid), !.uuids = @ + u.calls]

\* a timestamp taken once, when the module was loaded
set_update_date_stale(s, t) ==
    IF s.raised THEN [s EXCEPT !.output = EmptyDict]
    ELSE [s EXCEPT !.output = dict_set(@, ATTR_UPDATE_DATE, strftime(0))]

\* line 119, t being the clock reading utcnow() returns
set_update_date(s, t) ==
    IF s.raised THEN [s EXCEPT !.output = EmptyDict]
    ELSE [s EXCEPT !.output = dict_set(@, ATTR_UPDATE_DATE, strftime(t))]

\* item processed in Home Assistant state h after n earlier uuid4 calls
process_item(item, n, t, h) ==
    set_update_date(
        add_attribute_to_output(item, CONF_DISPLAY_URL,
            add_attribute_to_output(item, CONF_AUDIO,
                set_uid(
                    add_attribute_to_output(item, CONF_TEXT,
                        add_attribute_to_output(item, CONF_TITLE, Started,
                                                ATTR_TITLE_TEXT, h),
                        ATTR_MAIN_TEXT, h),
                    get_uid(item, n)),
                ATTR_STREAM_URL, h),
            ATTR_REDIRECTION_URL, h),
        t)

\* records inserted at the head of the list
loop_body_prepend(acc, p, t) ==
    [raised |-> p.raised,
     briefing |-> IF ~p.raised /\ p.output # EmptyDict
                  THEN <<p.output>> \o acc.briefing ELSE acc.briefing,
     skipped |-> IF ~p.raised /\ p.output = EmptyDict
                 THEN acc.skipped + 1 ELSE acc.skipped,
     n |-> acc.n + p.uuids,
     renders |-> acc.renders + p.renders,
     reads |-> IF p.raised THEN acc.reads ELSE Append(acc.reads, t)]

\* an item whose rendering raises is left out and the loop goes on
loop_body_swallow(acc, p, t) ==
    [raised |-> FALSE,
     briefing |-> IF ~p.raised /\ p.output # EmptyDict
                  THEN Append(acc.briefing, p.output) ELSE acc.briefing,
     skipped |-> IF ~p.raised /\ p.output = EmptyDict
                 THEN acc.skipped + 1 ELSE acc.skipped,
     n |-> acc.n + p.uuids,
     renders |-> acc.renders + p.renders,
     reads |-> IF p.raised THEN acc.reads ELSE Append(acc.reads, t)]

\* lines 74-76: the loop's state acc after an item whose process_item call
\* ended as p, its clock reading being t
loop_body(acc, p, t) ==
    [raised |-> p.raised,
     briefing |-> IF ~p.raised /\ p.output # EmptyDict
                  THEN Append(acc.briefing, p.output) ELSE acc.briefing,
     skipped |-> IF ~p.raised /\ p.output = EmptyDict
                 THEN acc.skipped + 1 ELSE acc.skipped,
     n |-> acc.n + p.uuids,
     renders |-> acc.renders + p.renders,
     reads |-> IF p.raised THEN acc.reads ELSE Append(acc.reads, t)]

\* lines 72-76: the loop of get from item i on
RECURSIVE for_items(_, _, _, _, _)
for_items(items, i, acc, reads, h) ==
    IF i > Len(items) \/ acc.raised THEN acc
    ELSE for_items(items, i + 1,
                   loop_body(acc, process_item(items[i], acc.n, reads[i], h), reads[i]),
                   reads, h)

\* b"" (lines 66 and 70) and self.json(briefing) (line 78): the JSON array of
\* the records, in the order of the list
EmptyBody == [t |-> "bytes", v |-> <<>>]
json(briefing) == [t |-> "json", v |-> briefing]
NoBody == [t |-> "none", v |-> <<>>]

\* What a run of get amounts to: the response (status and body) and the facts
\* about the run the properties speak of.  r is the state the loop ended in.
\* raised: TemplateError propagated to the caller of get, and get returned
\* nothing (status 0, no body).
Outcome(request, status, r, h, n) ==
    [request |-> request,
     status |-> IF r.raised THEN 0 ELSE status,
     body |-> IF r.raised THEN NoBody
              ELSE IF status = 200 THEN json(r.briefing) ELSE EmptyBody,
     raised |-> r.raised,
     hass_state |-> h, uuids |-> r.n - n,
     renders |-> r.renders, skipped |-> r.skipped, reads |-> r.reads]

NoItems(n) ==
    [raised |-> FALSE, briefing |-> <<>>, skipped |-> 0, n |-> n,
     renders |-> 0, reads |-> <<>>]

\* the briefing identifier checked before the password
get_result_briefing_first(fb, query, briefing_id, h, reads, n) ==
    IF ~is_valid_briefing(fb, briefing_id) THEN
        Outcome([query |-> query, briefing_id |-> briefing_id], 404, NoItems(n), h, n)
    ELSE IF ~validate_password(fb, query) THEN
        Outcome([query |-> query, briefing_id |-> briefing_id], 401, NoItems(n), h, n)
    ELSE
        Outcome([query |-> query, briefing_id |-> briefing_id], 200,
                for_items(dict_get_default(fb, briefing_id, List(<<>>)).v, 1,
                          NoItems(n), reads, h),
                h, n)

get_result(fb, query, briefing_id, h, reads, n) ==
    IF ~validate_password(fb, query) THEN
        Outcome([query |-> query, briefing_id |-> briefing_id], 401, NoItems(n), h, n)
    ELSE IF ~is_valid_briefing(fb, briefing_id) THEN
        Outcome([query |-> query, briefing_id |-> briefing_id], 404, NoItems(n), h, n)
    ELSE
        Outcome([query |-> query, briefing_id |-> briefing_id], 200,
                for_items(dict_get_default(fb, briefing_id, List(<<>>)).v, 1,
                          NoItems(n), reads, h),
                h, n)

----------------------------------------------------------------------------
(* Inputs *)

\* configured items
ItemPool ==
    { [k \in {CONF_TITLE, CONF_TEXT, CONF_UID} |->
          CASE k = CONF_TITLE -> Str("Static")
            [] k = CONF_TEXT -> Str("Body")
            [] k = CONF_UID -> Str("abc-1")],
      [k \in {CONF_TITLE, CONF_TEXT, CONF_AUDIO, CONF_DISPLAY_URL} |->
          CASE k = CONF_TITLE -> Template("{{ 'Hello' }}")
            [] k = CONF_TEXT -> Template("{{ states('sensor.n') }}")
            [] k = CONF_AUDIO -> Str("")
            [] k = CONF_DISPLAY_URL -> None],
      [k \in {CONF_UID, CONF_AUDIO, CONF_DISPLAY_URL} |->
          CASE k = CONF_UID -> Integer("0")
            [] k = CONF_AUDIO -> Template("{{ 1 / states('sensor.n') | int }}")
            [] k = CONF_DISPLAY_URL -> Str("http://d")],
      [k \in {CONF_TITLE, CONF_TEXT, CONF_UID} |->
          CASE k = CONF_TITLE -> None
            [] k = CONF_TEXT -> Integer("7")
            [] k = CONF_UID -> Str("")],
      [k \in {CONF_UID} |-> None] }

RECURSIVE SeqsUpTo(_, _)
SeqsUpTo(S, n) ==
    IF n = 0 THEN {<<>>}
    ELSE LET shorter == SeqsUpTo(S, n - 1) IN
         shorter \cup {Append(s, x) : s \in shorter, x \in S}

Briefings == SeqsUpTo(ItemPool, MaxItems)

\* passwords, as code points: "", "a", "aé", "aÃ©"
ConfPasswords == {<<>>, <<97, 233>>}
QueryPasswords == {<<>>, <<97>>, <<97, 233>>, <<97, 195, 169>>}

Config(pw, items) ==
    [k \in {CONF_PASSWORD, "news"} |->
        IF k = CONF_PASSWORD THEN Str(pw) ELSE List(items)]

Queries ==
    {EmptyDict} \cup {[k \in {API_PASSWORD} |-> Str(pw)] : pw \in QueryPasswords}

BriefingIds == {"news", CONF_PASSWORD, "unknown"}

HassStates == {"0", "2"}

NoResponse ==
    [request |-> [query |-> EmptyDict, briefing_id |-> ""], status |-> 0,
     body |-> NoBody, raised |-> FALSE, hass_state |-> "0", uuids |-> 0, renders |-> 0, skipped |-> 0, reads |-> <<>>]

----------------------------------------------------------------------------
(* The state machine *)

Init ==
    /\ flash_briefings \in {Config(pw, items) : pw \in ConfPasswords, items \in Briefings}
    /\ hass_state \in HassStates
    /\ now = 0
    /\ uuid_calls = 0
    /\ generated_uids = {}
    /\ served = 0
    /\ response = NoResponse

\* the items a request for briefing_id is answered from
ItemsOf(fb, briefing_id) ==
    IF is_valid_briefing(fb, briefing_id) THEN fb[briefing_id].v ELSE <<>>

\* the uids of a response that were generated for it
GeneratedIn(fb, resp) ==
    {resp.body.v[i][ATTR_UID] :
        i \in {j \in 1..Len(resp.body.v) :
                 /\ j <= Len(ItemsOf(fb, resp.request.briefing_id))
                 /\ is_none(dict_get(ItemsOf(fb, resp.request.briefing_id)[j], CONF_UID))}}

\* the clock readings of a request with n items, the last reading before it
\* being t0: the clock is only seen when it is read, and it has moved on by a
\* tick at each of the readings in ticked (since the request before, or since
\* the item before)
ClockReads(t0, n, ticked) ==
    [i \in 1..n |-> t0 + Cardinality({j \in ticked : j <= i})]

\* the configuration with the uids of the response stored in its items
WithUids(fb, resp) ==
    IF resp.status # 200 THEN fb
    ELSE [fb EXCEPT ![resp.request.briefing_id] =
            List([i \in 1..Len(resp.body.v) |->
                    dict_set(fb[resp.request.briefing_id].v[i], CONF_UID,
                             resp.body.v[i][ATTR_UID])])]

\* generated uids kept in the item for the next request
Handled_caching(resp) ==
    /\ response' = resp
    /\ now' = IF resp.reads = <<>> THEN now ELSE resp.reads[Len(resp.reads)]
    /\ uuid_calls' = uuid_calls + resp.uuids
    /\ generated_uids' = generated_uids \cup GeneratedIn(flash_briefings, response)
    /\ served' = served + 1
    /\ flash_briefings' = WithUids(flash_briefings, resp)
    /\ UNCHANGED hass_state

\* the state after a run of get that ended as resp
Handled(resp) ==
    /\ response' = resp
    /\ now' = IF resp.reads = <<>> THEN now ELSE resp.reads[Len(resp.reads)]
    /\ uuid_calls' = uuid_calls + resp.uuids
    /\ generated_uids' = generated_uids \cup GeneratedIn(flash_briefings, response)
    /\ served' = served + 1
    /\ UNCHANGED <<flash_briefings, hass_state>>

\* the number of clock readings a request may take
Readings(query, briefing_id) ==
    IF validate_password(flash_briefings, query)
       /\ is_valid_briefing(flash_briefings, briefing_id)
    THEN Len(flash_briefings[briefing_id].v) ELSE 0

get(query, briefing_id) ==
    /\ served < MaxRequests
    /\ \E ticked \in SUBSET (1..Readings(query, briefing_id)) :
          /\ now + Cardinality(ticked) <= MaxClock
          /\ Handled(get_result(flash_briefings, query, briefing_id, hass_state,
                                ClockReads(now, Readings(query, briefing_id), ticked),
                                uuid_calls))

\* a state the templates read changes between requests
StateChanged ==
    /\ served < MaxRequests
    /\ \E h \in HassStates \ {hass_state} : hass_state' = h
    /\ UNCHANGED <<flash_briefings, now, uuid_calls, generated_uids, served, response>>

Request == \E query \in Queries, briefing_id \in BriefingIds : get(query, briefing_id)

Next == Request \/ StateChanged

Spec == Init /\ [][Next]_vars

----------------------------------------------------------------------------
(* Properties *)

\* the request answered last: its parts, and what the configuration says of it
Supplied == response.request.query
Asked == response.request.briefing_id
Items == ItemsOf(flash_briefings, Asked)
Records == response.body.v

\* the supplied password is present and is the configured text
PasswordMatches ==
    /\ API_PASSWORD \in DOMAIN Supplied
    /\ Supplied[API_PASSWORD].v = flash_briefings[CONF_PASSWORD].v

\* the briefing identifier is a key of the configuration whose value is a list
BriefingConfigured ==
    /\ Asked \in DOMAIN flash_briefings
    /\ flash_briefings[Asked].t = "list"

\* C1: a request whose api_password is absent, or present (the empty string
\* included) but different from the configured password, gets 401 with an
\* empty body whatever the briefing_id and the configuration; a request whose
\* password equals the configured one never gets 401.
C1_Unauthorized ==
    served > 0 =>
        IF PasswordMatches THEN response.status # 401
        ELSE /\ response.status = 401
             /\ response.body = EmptyBody
             /\ ~response.raised

\* a request with the empty string as password was refused although the
\* configuration holds a password
C1_Witness ==
    /\ served > 0
    /\ API_PASSWORD \in DOMAIN Supplied
    /\ Supplied[API_PASSWORD].v = <<>>
    /\ flash_briefings[CONF_PASSWORD].v # <<>>
    /\ Asked = "news"
    /\ response.status = 401

\* C2: with the correct password, get returns 404 with an empty body exactly
\* when briefing_id is no key of the configuration or its value is not a list
\* (the key of the password included); a list, the empty one included, never
\* yields 404.
C2_NotFound ==
    (served > 0 /\ PasswordMatches) =>
        /\ response.status = 404 <=> ~BriefingConfigured
        /\ response.status = 404 => response.body = EmptyBody /\ ~response.raised
        /\ (BriefingConfigured /\ Items = <<>>) =>
                response.status = 200 /\ response.body = json(<<>>)

\* the briefing asked for was the key that holds the password
C2_Witness ==
    /\ served > 0
    /\ PasswordMatches
    /\ Asked = CONF_PASSWORD
    /\ response.status = 404

\* configurations with the password of the current one
SamePassword ==
    {Config(flash_briefings[CONF_PASSWORD].v, items) : items \in SeqsUpTo(ItemPool, 1)}

\* C10: the password is checked before the briefing identifier: a request with
\* a missing or wrong password gets the one response (401, empty body) under
\* every configuration with the same password and for every briefing_id, no
\* item is looked at for it, and 404 only answers a request whose password
\* matched.
C10_NothingLearned ==
    served > 0 =>
        /\ response.status = 404 => PasswordMatches
        /\ ~PasswordMatches =>
              /\ response.renders = 0 /\ response.uuids = 0 /\ response.reads = <<>>
              /\ \A fb \in SamePassword, briefing_id \in BriefingIds :
                    LET other == get_result(fb, Supplied, briefing_id,
                                            hass_state, <<>>, uuid_calls)
                    IN  /\ other.status = response.status
                        /\ other.body = response.body

\* a wrong password was refused with 401 on a briefing that does not exist
C10_Witness ==
    /\ served > 0
    /\ ~PasswordMatches
    /\ API_PASSWORD \in DOMAIN Supplied
    /\ Asked = "unknown"
    /\ response.status = 401

\* the number of uuid4 calls made before item i of the request was processed
UuidCallsBefore(i) ==
    (uuid_calls - response.uuids)
        + Cardinality({j \in 1..(i - 1) : is_none(dict_get(Items[j], CONF_UID))})

\* the optional fields of an item and the keys they are written to
Fields ==
    { <<CONF_TITLE, ATTR_TITLE_TEXT>>, <<CONF_TEXT, ATTR_MAIN_TEXT>>,
      <<CONF_AUDIO, ATTR_STREAM_URL>>, <<CONF_DISPLAY_URL, ATTR_REDIRECTION_URL>> }

\* rendering a field of the item raises in Home Assistant state h
RenderRaises(item, h) ==
    \E f \in Fields :
        /\ f[1] \in DOMAIN item
        /\ item[f[1]].t = "Template"
        /\ async_render(item[f[1]], h).raised

\* the response is 200 with one record per configured item, in order, each
\* the transform of its item and holding uid and updateDate; nothing skipped
FullList ==
    /\ response.status = 200
    /\ response.body.t = "json"
    /\ response.skipped = 0
    /\ Len(Records) = Len(Items)
    /\ \A i \in 1..Len(Items) :
          /\ {ATTR_UID, ATTR_UPDATE_DATE} \subseteq DOMAIN Records[i]
          /\ Records[i] = process_item(Items[i], UuidCallsBefore(i),
                                       response.reads[i], response.hass_state).output

\* C3 as stated: every request with the correct password for a configured
\* briefing of N items gets 200 with exactly N records, the i-th being the
\* transform of the i-th item, each with uid and updateDate, none skipped.
C3_AsStated ==
    (served > 0 /\ PasswordMatches /\ BriefingConfigured) => FullList

\* C3, amended: the same for every such request during which no template
\* rendering raises; when a rendering raises, TemplateError leaves get and no
\* response is returned.
C3_Transform ==
    (served > 0 /\ PasswordMatches /\ BriefingConfigured) =>
        /\ response.raised <=>
              \E i \in 1..Len(Items) : RenderRaises(Items[i], response.hass_state)
        /\ ~response.raised => FullList

\* two different items were served, the second with a generated uid
C3_Witness ==
    /\ served > 0
    /\ response.status = 200
    /\ Len(Records) = 2
    /\ Items[1] # Items[2]
    /\ CONF_UID \notin DOMAIN Items[2]

\* C4: an item with an explicit UID gets the string form of that UID as uid in
\* every response (also when the UID is 0 or the empty string); an item with
\* no explicit UID gets a uid that no earlier response returned as a generated
\* uid and that differs from the generated uid of every other item of the
\* response.
C4_Uids ==
    (served > 0 /\ response.status = 200) =>
        \A i \in 1..Len(Records) :
            IF ~is_none(dict_get(Items[i], CONF_UID))
            THEN Records[i][ATTR_UID] = Str(Items[i][CONF_UID].v)
            ELSE /\ Records[i][ATTR_UID] \notin generated_uids
                 /\ \A j \in 1..Len(Records) :
                       (j # i /\ is_none(dict_get(Items[j], CONF_UID)))
                           => Records[j][ATTR_UID] # Records[i][ATTR_UID]

\* a second response gave a falsy explicit UID and a generated one, after a
\* first response that had generated uids too
C4_Witness ==
    /\ served = 2
    /\ response.status = 200
    /\ generated_uids # {}
    /\ \E i, j \in 1..Len(Records) :
          /\ ~is_none(dict_get(Items[i], CONF_UID))
          /\ Items[i][CONF_UID] \in {Integer("0"), Str("")}
          /\ is_none(dict_get(Items[j], CONF_UID))

\* C5: each optional field goes to its own key: the key is absent exactly when
\* the configured value is absent or None, holds the rendered string when the
\* value is a template and the configured value itself otherwise (an empty
\* string is kept); no key is added besides these, uid and updateDate.
C5_Fields ==
    (served > 0 /\ response.status = 200) =>
        \A i \in 1..Len(Records) :
            /\ i <= Len(Items)
            /\ DOMAIN Records[i] \subseteq
                  {f[2] : f \in Fields} \cup {ATTR_UID, ATTR_UPDATE_DATE}
            /\ \A f \in Fields :
                  /\ f[2] \in DOMAIN Records[i] <=> ~is_none(dict_get(Items[i], f[1]))
                  /\ f[2] \in DOMAIN Records[i] =>
                        Records[i][f[2]] =
                            IF Items[i][f[1]].t = "Template"
                            THEN async_render(Items[i][f[1]], response.hass_state).v
                            ELSE Items[i][f[1]]

\* a record with a rendered title, an empty audio string kept and a None
\* display URL dropped
C5_Witness ==
    /\ served > 0
    /\ response.status = 200
    /\ \E i \in 1..Len(Records) :
          /\ dict_get(Items[i], CONF_TITLE).t = "Template"
          /\ Records[i][ATTR_TITLE_TEXT] = Str("Hello")
          /\ Records[i][ATTR_STREAM_URL] = Str("")
          /\ CONF_DISPLAY_URL \in DOMAIN Items[i]
          /\ ATTR_REDIRECTION_URL \notin DOMAIN Records[i]

\* one of the three outcomes: 200 with the full list, or 401 or 404 with an
\* empty body and nothing processed
ThreeOutcomes ==
    /\ ~response.raised
    /\ response.status \in {200, 401, 404}
    /\ response.status = 200 =>
          response.body.t = "json" /\ Len(Records) = Len(Items)
    /\ response.status # 200 =>
          /\ response.body = EmptyBody
          /\ response.renders = 0 /\ response.uuids = 0 /\ response.reads = <<>>

\* C6 as stated: every request ends in one of the three outcomes, and one that
\* fails does so before any item is processed.
C6_AsStated == served > 0 => ThreeOutcomes

\* C6, amended: every request during which no template rendering raises ends
\* in one of the three outcomes, a 401 or 404 coming before any item is
\* processed; a request during which a rendering raises ends in none of them:
\* TemplateError leaves get after the password and the briefing were accepted,
\* possibly after items were processed, and no list, partial or full, is
\* returned.
C6_Outcomes ==
    served > 0 =>
        IF response.raised
        THEN /\ response.status = 0
             /\ response.body = NoBody
             /\ PasswordMatches /\ BriefingConfigured
             /\ response.renders >= 1
             /\ Len(response.reads) < Len(Items)
        ELSE ThreeOutcomes

\* a rendering raised after an earlier item had been processed
C6_Witness ==
    /\ served > 0
    /\ response.raised
    /\ response.uuids > 0
    /\ Len(response.reads) = 1

\* what a response shows apart from generated uids and the timestamp
Shown(fb, resp) ==
    [status |-> resp.status, raised |-> resp.raised, kind |-> resp.body.t,
     records |->
        [i \in 1..Len(resp.body.v) |->
            [k \in DOMAIN resp.body.v[i] \
                    ({ATTR_UPDATE_DATE} \cup
                     IF is_none(dict_get(ItemsOf(fb, resp.request.briefing_id)[i], CONF_UID))
                     THEN {ATTR_UID} ELSE {})
                |-> resp.body.v[i][k]]]]

\* the response a view just built on configuration fb gives to the request
ServedAlone(fb, request, h) ==
    get_result(fb, request.query, request.briefing_id, h,
               [i \in 1..Len(ItemsOf(fb, request.briefing_id)) |-> 0], 0)

\* C7: no request changes the configuration, and whatever was served before,
\* a request gets the status and records a view just built on the same
\* configuration gives it, apart from generated uids and the timestamp.
C7_NoSharedState ==
    /\ [][flash_briefings' = flash_briefings]_vars
    /\ [](served > 0 =>
            Shown(flash_briefings, response)
                = Shown(flash_briefings,
                        ServedAlone(flash_briefings, response.request,
                                    response.hass_state)))

\* a second request was served after one that generated uids
C7_Witness ==
    /\ served = 2
    /\ generated_uids # {}
    /\ response.status = 200
    /\ Len(Records) = 2

\* the updateDate of every record of the response now returned is the clock
\* reading taken while the request ran, in the date format
StampedNow ==
    (served' > served /\ response'.status = 200) =>
        /\ Len(response'.reads) = Len(response'.body.v)
        /\ \A i \in 1..Len(response'.reads) :
              /\ now <= response'.reads[i] /\ response'.reads[i] <= now'
              /\ i > 1 => response'.reads[i - 1] <= response'.reads[i]
              /\ response'.body.v[i][ATTR_UPDATE_DATE] = strftime(response'.reads[i])

\* the response now returned follows one for the same briefing
Repeated ==
    /\ served' > served
    /\ response.status = 200 /\ response'.status = 200
    /\ response'.request.briefing_id = response.request.briefing_id

\* C8 as stated: updateDate is the current UTC time read when the item is
\* processed, formatted, and two requests for the same item return different
\* updateDate values.
C8_AsStated ==
    [][/\ StampedNow
       /\ Repeated =>
             \A i \in 1..Len(response.body.v) :
                 response'.body.v[i][ATTR_UPDATE_DATE]
                     # response.body.v[i][ATTR_UPDATE_DATE]]_vars

\* C8, amended: updateDate is the current UTC time read when the item is
\* processed, formatted; two requests for the same item return different
\* updateDate values exactly when their clock readings differ in what the
\* date format keeps, and the same value otherwise.
C8_UpdateDate ==
    [][/\ StampedNow
       /\ Repeated =>
             \A i \in 1..Len(response.body.v) :
                 (response'.body.v[i][ATTR_UPDATE_DATE]
                     # response.body.v[i][ATTR_UPDATE_DATE])
                 <=> (response'.reads[i] \div TicksPerSecond
                         # response.reads[i] \div TicksPerSecond)]_vars

\* two records of one response carry different timestamps
C8_Witness ==
    /\ served = 2
    /\ response.status = 200
    /\ Len(Records) = 2
    /\ Records[1][ATTR_UPDATE_DATE] # Records[2][ATTR_UPDATE_DATE]

====
